---- MODULE Spec2Model ----
(***************************************************************************)
(* A model of tcod.ec (src/tcod/ec/__init__.py): the ComponentDict         *)
(* container ("UniqueMap" in the specification), its observers and its     *)
(* pickling protocol, and the Composite container ("MultiBag").  One       *)
(* entity `m` and one Composite `bag` are modelled, together with the      *)
(* `clone` that copy/pickle builds from either.                            *)
(***************************************************************************)
EXTENDS Integers, Sequences, FiniteSets, TLC

VARIABLES
    abstract_components, \* the classes abstract_component was called on
    composite,         \* bag._components: a DefaultDict from class to list
    cls,               \* the class of the container (ComponentDict, Composite or a subclass)
    components,        \* m._components: an insertion-ordered dict, as <<key, value>> pairs
    observers,         \* m.observers: dict from key type to a list of local observers
    attrs,             \* the instance attributes a subclass adds (slots and __dict__)
    global_observers,  \* ComponentDict.global_observers (class variable)
    raising,           \* which observer callback raises, and with what exception
    log,               \* the observer invocations of the last operation, in order
    last,              \* the last operation: its name, arguments, outcome and pre-state
    clone,             \* the object built by the last __setstate__(__getstate__(m))
    repr_running,      \* reprlib: the objects whose __repr__ is running in this thread
    stack,             \* the call stack of a running repr(m): one frame per __repr__ entered
    text               \* the text that the running repr(m) has produced so far

vars == <<abstract_components, composite, cls, components, observers, attrs, global_observers, raising, log, last, clone, repr_running, stack, text>>

(***************************************************************************)
(* Bounds                                                                  *)
(***************************************************************************)
\* Longest sequence of components handed to ComponentDict(...) or .set(...).
MaxComponents == 3

(***************************************************************************)
(* Classes of components and component values                              *)
(***************************************************************************)
\* Python's None: what dict.get returns for a missing key, and also an
\* ordinary object (of class NoneType) that can be stored as a component.
None == "None"

\* The component classes of the test module, plus NoneType and object.
Types == {"object", "Base", "Derived", "NoneType"}

\* The component instances used as inputs.
Components == {"base", "derived", None}

\* Recursive(entity): the component of the test module that refers to a
\* ComponentDict (m, or a second entity n) or to None.
RecursiveOf(entity) ==
    CASE entity = "m" -> "Recursive(entity=m)"
      [] entity = "n" -> "Recursive(entity=n)"
      [] entity = None -> "Recursive(entity=None)"

\* The Recursive instances.
Recursives == {RecursiveOf(entity) : entity \in {"m", "n", None}}

\* Abstract(value): the component of the test module that wraps a Base.
AbstractOf(value) ==
    CASE value = "base" -> "Abstract(value=base)"
      [] value = "derived" -> "Abstract(value=derived)"

\* The Abstract instances.
Abstracts == {AbstractOf(value) : value \in {"base", "derived"}}

\* value.__class__
ClassOf(value) ==
    CASE value = "base" -> "Base"
      [] value = "derived" -> "Derived"
      [] value = None -> "NoneType"
      [] value \in Recursives -> "Recursive"
      [] value \in Abstracts -> "Abstract"

\* The direct base class of a component class (single inheritance).
Parent(type) == IF type = "Derived" THEN "Base" ELSE "object"

\* The classes the test module decorates with @abstract_component: each
\* gets the class attribute _COMPONENT_TYPE = cls, which its subclasses
\* inherit.
Abstract == {"Base"}

\* getattr that reads the attribute from the class's own __dict__ only, so
\* that a subclass does not inherit it.
ComponentTypeAttrOwn(type, default) ==
    IF type \in abstract_components THEN type ELSE default

\* getattr(type, "_COMPONENT_TYPE", default), found along the MRO of `type`.
RECURSIVE ComponentTypeAttr(_, _)
ComponentTypeAttr(type, default) ==
    IF type \in abstract_components THEN type
    ELSE IF type = "object" THEN default
    ELSE ComponentTypeAttr(Parent(type), default)

\* getattr(component, "_COMPONENT_TYPE", component.__class__): the key a
\* component is stored under ("resolve" in the specification).
ComponentKey(value) == ComponentTypeAttr(ClassOf(value), ClassOf(value))

\* __assert_key: a key is valid iff getattr(key, "_COMPONENT_TYPE", key) is key.
ValidKey(key) == ComponentTypeAttr(key, key) = key

(***************************************************************************)
(* Insertion-ordered dict, as a sequence of <<key, value>> pairs           *)
(***************************************************************************)
DictKeys(d) == [i \in 1..Len(d) |-> d[i][1]]
DictValues(d) == [i \in 1..Len(d) |-> d[i][2]]
DictHas(d, key) == \E i \in 1..Len(d) : d[i][1] = key
\* dict.get(key): the value, or None when the key is missing.
DictGet(d, key) ==
    IF DictHas(d, key) THEN d[CHOOSE i \in 1..Len(d) : d[i][1] = key][2] ELSE None
\* d[key] = value: an existing key keeps its position, a new key goes last.
DictSet(d, key, value) ==
    IF DictHas(d, key)
    THEN [i \in 1..Len(d) |-> IF d[i][1] = key THEN <<key, value>> ELSE d[i]]
    ELSE Append(d, <<key, value>>)
\* del d[key]
DictDel(d, key) == SelectSeq(d, LAMBDA p : p[1] # key)

(***************************************************************************)
(* Observers                                                               *)
(***************************************************************************)
\* The callbacks that may be registered: two global ones, three local ones.
GlobalCallbacks == {"g1", "g2"}
LocalCallbacks == {"l1", "l2", "l3"}

\* No callback raises.
NoRaise == [obs |-> "", exc |-> ""]

\* What a callback may do besides returning: raise one of these.
Exceptions == {"RuntimeError", "KeyError"}

\* dict.get(key, ()) on the observers dict.
ObserversFor(obs, key) == IF key \in DOMAIN obs THEN obs[key] ELSE <<>>

\* Calls with the two loops swapped: the local observers are called first.
CallsLocalFirst(self, obs, key, value, old_value) ==
    [i \in 1..Len(ObserversFor(obs, key)) |->
        [reg |-> key, obs |-> ObserversFor(obs, key)[i],
         args |-> <<self, value, old_value>>]]
    \o
    [i \in 1..Len(global_observers) |->
        [reg |-> "global", obs |-> global_observers[i],
         args |-> <<self, key, value, old_value>>]]

\* The calls __setitem__ and __delitem__ make, in order: every global
\* observer with (self, key, value, old_value), then every local observer
\* of `key` with (self, value, old_value).
Calls(self, obs, key, value, old_value) ==
    [i \in 1..Len(global_observers) |->
        [reg |-> "global", obs |-> global_observers[i],
         args |-> <<self, key, value, old_value>>]]
    \o
    [i \in 1..Len(ObserversFor(obs, key)) |->
        [reg |-> key, obs |-> ObserversFor(obs, key)[i],
         args |-> <<self, value, old_value>>]]

\* Dispatch with the exceptions of the callbacks collected: every callback
\* is called, and the exception is raised after the loops.
DispatchKeepsGoing(self, obs, key, value, old_value) ==
    LET calls == Calls(self, obs, key, value, old_value)
    IN  [log |-> calls,
         err |-> IF \E i \in 1..Len(calls) : calls[i].obs = raising.obs
                 THEN raising.exc ELSE "ok"]

\* Running the two `for` loops: the calls actually made (a raising callback
\* is called and ends the loops) and the exception that escapes, if any.
Dispatch(self, obs, key, value, old_value) ==
    LET calls == Calls(self, obs, key, value, old_value)
        hit == {i \in 1..Len(calls) : calls[i].obs = raising.obs}
    IN  IF hit = {}
        THEN [log |-> calls, err |-> "ok"]
        ELSE LET first == CHOOSE i \in hit : \A j \in hit : i <= j
             IN  [log |-> SubSeq(calls, 1, first), err |-> raising.exc]

(***************************************************************************)
(* ComponentDict methods, as functions of the dict `d` and the observers   *)
(* dict `obs` of the object `self`.  Each returns the dict afterwards, the *)
(* observer calls made and the exception raised ("ok" when none).          *)
(***************************************************************************)
Outcome(d, calls, err) == [components |-> d, log |-> calls, err |-> err]

\* __setitem__ without the check of the key against the value's own key.
SetItemAnyKey(self, d, obs, key, value) ==
    LET old_value == DictGet(d, key)
        disp == Dispatch(self, obs, key, value, old_value)
    IN  Outcome(DictSet(d, key, value), disp.log, disp.err)

\* __setitem__ with the check made after the value is stored.
SetItemStoresFirst(self, d, obs, key, value) ==
    LET old_value == DictGet(d, key)
        disp == Dispatch(self, obs, key, value, old_value)
    IN  IF key # ComponentKey(value)
        THEN Outcome(DictSet(d, key, value), <<>>, "TypeError")
        ELSE Outcome(DictSet(d, key, value), disp.log, disp.err)

\* ComponentDict.__setitem__
SetItem(self, d, obs, key, value) ==
    LET valid_key == ComponentKey(value)
        old_value == DictGet(d, key)
        disp == Dispatch(self, obs, key, value, old_value)
    IN  IF key # valid_key
        THEN Outcome(d, <<>>, "TypeError")
        ELSE Outcome(DictSet(d, key, value), disp.log, disp.err)

\* __delitem__ that ignores a missing key, as self._components.pop(key, None) would.
DelItemIgnoresMissing(self, d, obs, key) ==
    LET old_value == DictGet(d, key)
        disp == Dispatch(self, obs, key, None, old_value)
    IN  IF ~DictHas(d, key)
        THEN Outcome(d, <<>>, "ok")
        ELSE Outcome(DictDel(d, key), disp.log, disp.err)

\* ComponentDict.__delitem__
DelItem(self, d, obs, key) ==
    LET old_value == DictGet(d, key)
        disp == Dispatch(self, obs, key, None, old_value)
    IN  IF ~DictHas(d, key)
        THEN Outcome(d, <<>>, "KeyError")
        ELSE Outcome(DictDel(d, key), disp.log, disp.err)

\* set that leaves a key alone once it holds a value, as setdefault would.
RECURSIVE SetAllKeepsFirst(_, _, _, _)
SetAllKeepsFirst(self, d, obs, cs) ==
    IF cs = <<>>
    THEN Outcome(d, <<>>, "ok")
    ELSE IF DictHas(d, ComponentKey(Head(cs)))
    THEN SetAllKeepsFirst(self, d, obs, Tail(cs))
    ELSE CHOOSE out \in
            { IF one.err # "ok"
              THEN one
              ELSE CHOOSE both \in
                      { Outcome(rest.components, one.log \o rest.log, rest.err)
                        : rest \in {SetAllKeepsFirst(self, one.components, obs, Tail(cs))} } : TRUE
              : one \in {SetItem(self, d, obs, ComponentKey(Head(cs)), Head(cs))} } : TRUE

\* set that goes on to the remaining components when a __setitem__ raises,
\* and raises that exception after the loop.
RECURSIVE SetAllKeepsGoing(_, _, _, _)
SetAllKeepsGoing(self, d, obs, cs) ==
    IF cs = <<>>
    THEN Outcome(d, <<>>, "ok")
    ELSE CHOOSE out \in
            { CHOOSE both \in
                  { Outcome(rest.components, one.log \o rest.log,
                            IF one.err # "ok" THEN one.err ELSE rest.err)
                    : rest \in {SetAllKeepsGoing(self, one.components, obs, Tail(cs))} } : TRUE
              : one \in {SetItem(self, d, obs, ComponentKey(Head(cs)), Head(cs))} } : TRUE

\* ComponentDict.set(*components): one __setitem__ per component, in order;
\* an exception ends the loop.  (CHOOSE over a singleton binds the outcome
\* of a step, so that it is computed once.)
RECURSIVE SetAll(_, _, _, _)
SetAll(self, d, obs, cs) ==
    IF cs = <<>>
    THEN Outcome(d, <<>>, "ok")
    ELSE CHOOSE out \in
            { IF one.err # "ok"
              THEN one
              ELSE CHOOSE both \in
                      { Outcome(rest.components, one.log \o rest.log, rest.err)
                        : rest \in {SetAll(self, one.components, obs, Tail(cs))} } : TRUE
              : one \in {SetItem(self, d, obs, ComponentKey(Head(cs)), Head(cs))} } : TRUE

\* ComponentDict.__getitem__ (with __debug__ on) and __missing__: the value
\* and the exception raised.
GetItem(d, key) ==
    LET value == DictGet(d, key)
    IN  IF ~ValidKey(key) THEN [value |-> None, err |-> "AssertionError"]
        ELSE IF value # None THEN [value |-> value, err |-> "ok"]
        ELSE [value |-> None, err |-> "KeyError"]

\* ComponentDict.__contains__ (with __debug__ on) for an iterable of keys; a
\* single type is the iterable of that one type.
Contains(d, keys) ==
    IF \E i \in 1..Len(keys) : ~ValidKey(keys[i])
    THEN [value |-> FALSE, err |-> "AssertionError"]
    ELSE [value |-> \A i \in 1..Len(keys) : DictHas(d, keys[i]), err |-> "ok"]

\* Mapping.get(key, default), as ComponentDict inherits it: self[key], and
\* the default when that raises KeyError.
Get(d, key, default) ==
    LET got == GetItem(d, key)
    IN  IF got.err = "KeyError" THEN [value |-> default, err |-> "ok"] ELSE got

\* MutableMapping.popitem, as ComponentDict inherits it: the first key of
\* iter(self), self[key], del self[key].  KeyError when the dict is empty.
PopItem(self, d, obs) ==
    IF d = <<>>
    THEN Outcome(d, <<>>, "KeyError")
    ELSE LET key == d[1][1]
             got == GetItem(d, key)
         IN  IF got.err # "ok"
             THEN Outcome(d, <<>>, got.err)
             ELSE DelItem(self, d, obs, key)

\* MutableMapping.clear, as ComponentDict inherits it: popitem() until a
\* KeyError, which is swallowed; any other exception escapes.
RECURSIVE Clear(_, _, _)
Clear(self, d, obs) ==
    LET one == PopItem(self, d, obs)
        rest == Clear(self, one.components, obs)
    IN  IF one.err = "KeyError"
        THEN Outcome(one.components, one.log, "ok")
        ELSE IF one.err # "ok"
        THEN one
        ELSE Outcome(rest.components, one.log \o rest.log, rest.err)

(***************************************************************************)
(* Pickling: __getstate__ and __setstate__                                 *)
(***************************************************************************)
\* ComponentDict, the test module's ComponentDictNode (which declares
\* __slots__ = ("children", "__dict__", "unset")), and a subclass that
\* declares no __slots__ at all (class PlainSubclass(ComponentDict): pass).
\* Composite and the test module's CompositeNode (which declares
\* __slots__ = ("__dict__", "unset")) are the classes of a Composite.
ContainerClasses == {"ComponentDict", "ComponentDictNode", "PlainSubclass"}

\* cls.__mro__, up to object (the abstract bases in between have empty __slots__).
Mro(c) ==
    CASE c \in {"ComponentDict", "Composite"} -> <<c, "object">>
      [] c = "CompositeNode" -> <<c, "Composite", "object">>
      [] OTHER -> <<c, "ComponentDict", "object">>

\* getattr(c, "__slots__", ()): a class that declares none inherits the attribute.
SlotsAttr(c) ==
    CASE c = "ComponentDict" -> {"_components", "observers", "__weakref__"}
      [] c = "ComponentDictNode" -> {"children", "__dict__", "unset"}
      [] c = "PlainSubclass" -> {"_components", "observers", "__weakref__"}
      [] c = "Composite" -> {"_components", "__weakref__"}
      [] c = "CompositeNode" -> {"__dict__", "unset"}
      [] c = "object" -> {}

\* Whether instances of c have a __dict__: a __dict__ slot, or no __slots__.
HasDict(c) == c \in {"ComponentDictNode", "PlainSubclass", "CompositeNode"}

\* The names of the slots of an instance of c that hold subclass data.
DataSlots(c) ==
    CASE c = "ComponentDictNode" -> {"children", "unset"}
      [] c = "CompositeNode" -> {"unset"}
      [] OTHER -> {}

\* The attributes calling code may assign on an instance.
AttrNames == {"children", "name"}
AttrValues == {"Name", "Top"}

\* self.__dict__: the attributes that do not live in a slot.
InstanceDict(c, at) == [a \in DOMAIN at \ DataSlots(c) |-> at[a]]

\* hasattr(self, attr) for a slot name.
HasAttr(c, at, attr) ==
    CASE attr \in {"_components", "observers", "__weakref__"} -> TRUE
      [] attr = "__dict__" -> HasDict(c)
      [] OTHER -> attr \in DOMAIN at

\* The names __getstate__ stores: for every class of the MRO, every slot it
\* names that is set, __weakref__ skipped, __dict__ replaced by its items.
StateNames(c, at) ==
    UNION { UNION { IF ~HasAttr(c, at, attr) \/ attr = "__weakref__" THEN {}
                    ELSE IF attr = "__dict__" THEN DOMAIN InstanceDict(c, at)
                    ELSE {attr}
                  : attr \in SlotsAttr(Mro(c)[i]) }
          : i \in 1..Len(Mro(c)) }

\* A pickled value whose Python type __setstate__ tests with isinstance.
PyTuple(value) == [type |-> "tuple", value |-> value]
PyDict(value) == [type |-> "dict", value |-> value]

\* ComponentDict.__getstate__: the state dict, with "_components" replaced
\* by the tuple of the component values.
GetState(c, d, obs, at) ==
    PyDict([a \in StateNames(c, at) |->
        CASE a = "_components" -> PyTuple(DictValues(d))
          [] a = "observers" -> obs
          [] OTHER -> at[a]])

\* The states earlier versions pickled, for an entity with the dict d and
\* the instance attributes `at`: version 1.1 pickled the instance __dict__,
\* with _components the dict itself; version 2 pickled the tuple of the
\* components; an object with slots and no __getstate__ is pickled as the
\* pair (None, slots dict).  None of them has an "observers" item.
LegacyShapes == {"v1.1", "v2", "slots"}
LegacyState(shape, d, at) ==
    LET dict_state(cs) ==
            [a \in {"_components"} \cup DOMAIN at |->
                IF a = "_components" THEN cs ELSE at[a]]
    IN  CASE shape = "v1.1" -> PyDict(dict_state(PyDict(d)))
          [] shape = "v2" -> PyDict(dict_state(PyTuple(DictValues(d))))
          [] shape = "slots" -> PyTuple(<<None, dict_state(PyTuple(DictValues(d)))>>)

\* The dict state and the components __setstate__ gets from a state: the
\* second item of a tuple state; the values of a version 1.1 dict.
DictStateOf(state) == IF state.type = "tuple" THEN state.value[2] ELSE state.value
ComponentsOf(dict_state) ==
    LET components_ == dict_state["_components"]
    IN  IF components_.type = "dict" THEN DictValues(components_.value)
        ELSE components_.value

\* __setstate__ that takes the values of a version 1.1 dict last to first.
SetStateReversesDict(self, c, state) ==
    LET dict_state == DictStateOf(state)
        raw == dict_state["_components"]
        cs == IF raw.type = "dict"
              THEN [i \in 1..Len(raw.value) |-> raw.value[Len(raw.value) + 1 - i][2]]
              ELSE raw.value
        pickled == IF "observers" \in DOMAIN dict_state THEN dict_state["observers"] ELSE <<>>
        rest == DOMAIN dict_state \ {"_components", "observers"}
        out == SetAll(self, <<>>, <<>>, cs)
    IN  [cls |-> c,
         components |-> out.components,
         observers |-> IF out.err = "ok" THEN pickled ELSE <<>>,
         attrs |-> [a \in rest |-> dict_state[a]],
         log |-> out.log,
         err |-> out.err]

\* __setstate__ that assigns the pickled observers before it sets the components.
SetStateNotifiesLocals(self, c, state) ==
    LET dict_state == DictStateOf(state)
        cs == ComponentsOf(dict_state)
        pickled == IF "observers" \in DOMAIN dict_state THEN dict_state["observers"] ELSE <<>>
        rest == DOMAIN dict_state \ {"_components", "observers"}
        out == SetAll(self, <<>>, pickled, cs)
    IN  [cls |-> c,
         components |-> out.components,
         observers |-> pickled,
         attrs |-> [a \in rest |-> dict_state[a]],
         log |-> out.log,
         err |-> out.err]

\* ComponentDict.__setstate__ on a new object `self` of class c: the state
\* is normalized (a tuple state, a dict of components, a missing observers
\* item), the attributes of the state are set, then the components are set
\* with self.observers = {}, and the pickled observers are assigned last.
SetState(self, c, state) ==
    LET dict_state == DictStateOf(state)
        cs == ComponentsOf(dict_state)
        pickled == IF "observers" \in DOMAIN dict_state THEN dict_state["observers"] ELSE <<>>
        rest == DOMAIN dict_state \ {"_components", "observers"}
        out == SetAll(self, <<>>, <<>>, cs)
    IN  [cls |-> c,
         components |-> out.components,
         observers |-> IF out.err = "ok" THEN pickled ELSE <<>>,
         attrs |-> [a \in rest |-> dict_state[a]],
         log |-> out.log,
         err |-> out.err]

(***************************************************************************)
(* Composite: components of built-in classes, of which 1 and True compare  *)
(* equal although their classes differ                                     *)
(***************************************************************************)
\* Longest list a Composite holds under a key.
MaxBagLen == 3

\* The components put in a Composite: the int 1, the bool True (bool is a
\* subclass of int) and the str "fire".
BagComponents == {"1", "True", "fire"}

\* component.__class__.__mro__
BagMro(component) ==
    CASE component = "1" -> <<"int", "object">>
      [] component = "True" -> <<"bool", "int", "object">>
      [] component = "fire" -> <<"str", "object">>

\* The classes that can be keys of a Composite.
BagTypes == {"bool", "int", "str", "object"}

\* a == b, as list.remove compares: 1 == True.
Eq(a, b) == a = b \/ {a, b} = {"1", "True"}

\* What a Composite method returns: the DefaultDict afterwards and the
\* exception raised ("ok" when none).
BagOutcome(b, err) == [composite |-> b, err |-> err]

\* self._components[key] on the DefaultDict(list): the dict afterwards, in
\* which a missing key has been inserted with an empty list.
DefaultGet(b, key) == IF key \in DOMAIN b THEN b ELSE b @@ (key :> <<>>)

\* Composite.add: the loop over the MRO, appending under each class.
RECURSIVE AddTo(_, _, _)
AddTo(b, mro, component) ==
    IF mro = <<>>
    THEN b
    ELSE LET got == DefaultGet(b, Head(mro))
         IN  AddTo([got EXCEPT ![Head(mro)] = Append(@, component)], Tail(mro), component)

\* add that appends under the component's own class only.
CompositeAddOwnClass(b, component) ==
    AddTo(b, <<Head(BagMro(component))>>, component)

\* Composite.add
CompositeAdd(b, component) == AddTo(b, BagMro(component), component)

\* Composite.extend, and the loops of __init__ and __setstate__: add in order.
RECURSIVE CompositeExtend(_, _)
CompositeExtend(b, cs) ==
    IF cs = <<>> THEN b ELSE CompositeExtend(CompositeAdd(b, Head(cs)), Tail(cs))

\* remove that takes out the last item equal to the component, not the first.
RECURSIVE RemoveFromLast(_, _, _)
RemoveFromLast(b, mro, component) ==
    IF mro = <<>>
    THEN BagOutcome(b, "ok")
    ELSE LET key == Head(mro)
             got == DefaultGet(b, key)
             lst == got[key]
             hit == {i \in 1..Len(lst) : Eq(lst[i], component)}
         IN  IF hit = {}
             THEN BagOutcome(got, "ValueError")
             ELSE LET i == CHOOSE n \in hit : \A j \in hit : n >= j
                      shorter == SubSeq(lst, 1, i - 1) \o SubSeq(lst, i + 1, Len(lst))
                  IN  RemoveFromLast(IF shorter = <<>>
                                     THEN [k \in DOMAIN got \ {key} |-> got[k]]
                                     ELSE [got EXCEPT ![key] = shorter],
                                     Tail(mro), component)

\* Composite.remove: the loop over the MRO.  Under each class the first
\* item equal to the component is removed from the list (list.remove
\* raises ValueError when there is none), and the key is deleted when the
\* list is left empty.
RECURSIVE RemoveFrom(_, _, _)
RemoveFrom(b, mro, component) ==
    IF mro = <<>>
    THEN BagOutcome(b, "ok")
    ELSE LET key == Head(mro)
             got == DefaultGet(b, key)
             lst == got[key]
             hit == {i \in 1..Len(lst) : Eq(lst[i], component)}
         IN  IF hit = {}
             THEN BagOutcome(got, "ValueError")
             ELSE LET i == CHOOSE n \in hit : \A j \in hit : n <= j
                      shorter == SubSeq(lst, 1, i - 1) \o SubSeq(lst, i + 1, Len(lst))
                  IN  RemoveFrom(IF shorter = <<>>
                                 THEN [k \in DOMAIN got \ {key} |-> got[k]]
                                 ELSE [got EXCEPT ![key] = shorter],
                                 Tail(mro), component)

\* Composite.remove
CompositeRemove(b, component) == RemoveFrom(b, BagMro(component), component)

\* The loop of __delitem__: remove each object of a copy of the list.
RECURSIVE RemoveEach(_, _)
RemoveEach(b, objs) ==
    IF objs = <<>>
    THEN BagOutcome(b, "ok")
    ELSE LET one == CompositeRemove(b, Head(objs))
         IN  IF one.err # "ok" THEN one ELSE RemoveEach(one.composite, Tail(objs))

\* Composite.__delitem__
CompositeDelItem(b, key) ==
    IF key \notin DOMAIN b THEN BagOutcome(b, "ok") ELSE RemoveEach(b, b[key])

\* Composite.clear
CompositeClear(b) ==
    IF "object" \in DOMAIN b THEN CompositeDelItem(b, "object") ELSE BagOutcome(b, "ok")

\* Composite.__getitem__: self._components.get(key, ())
CompositeGetItem(b, key) == IF key \in DOMAIN b THEN b[key] ELSE <<>>

\* Composite.__setitem__: del self[key], then add each of the values.
CompositeSetItem(b, key, values) ==
    LET deleted == CompositeDelItem(b, key)
    IN  IF deleted.err # "ok" THEN deleted
        ELSE BagOutcome(CompositeExtend(deleted.composite, values), "ok")

\* The loop of __delitem__ while the caller holds on to the list object
\* that was under `key` when the loop began: `attached` tells whether that
\* object is still the list the dict holds under `key`.  remove visits each
\* class once and deletes a key only when its list is empty, so the object
\* stays attached as long as the key stays, and is empty once detached.
RECURSIVE RemoveEachLive(_, _, _, _)
RemoveEachLive(b, objs, key, attached) ==
    IF objs = <<>>
    THEN [composite |-> b, err |-> "ok", attached |-> attached]
    ELSE LET one == CompositeRemove(b, Head(objs))
             still == attached /\ key \in DOMAIN one.composite
         IN  IF one.err # "ok"
             THEN [composite |-> one.composite, err |-> one.err, attached |-> still]
             ELSE RemoveEachLive(one.composite, Tail(objs), key, still)

\* bag[key] = bag[key]: __setitem__ with the sequence that __getitem__
\* returned as `values`.  That is the list the dict holds under key (the
\* empty tuple when the key is missing); `del self[key]` removes from that
\* very list, and the `for` loop then iterates what is left of it: nothing
\* when the list is empty.  (A list left attached with items in it would
\* grow under the loop that iterates it, without end.)
CompositeSetItemLive(b, key) ==
    IF key \notin DOMAIN b
    THEN BagOutcome(b, "ok")
    ELSE LET deleted == RemoveEachLive(b, b[key], key, TRUE)
             values == IF deleted.attached THEN deleted.composite[key] ELSE <<>>
         IN  IF deleted.err # "ok" THEN BagOutcome(deleted.composite, deleted.err)
             ELSE IF values = <<>> THEN BagOutcome(deleted.composite, "ok")
             ELSE BagOutcome(deleted.composite, "MemoryError")

\* Composite.__contains__ for an iterable of keys.
CompositeContains(b, keys) == \A i \in 1..Len(keys) : keys[i] \in DOMAIN b

\* Composite.__getstate__: the slots and dict attributes, with
\* "_components" the list held under object.
CompositeGetState(c, b, at) ==
    [a \in StateNames(c, at) |->
        IF a = "_components" THEN CompositeGetItem(b, "object") ELSE at[a]]

\* Composite.__setstate__ on a new object of class c: the attributes of
\* the state are set, and the components are added to a new DefaultDict.
CompositeSetState(c, state) ==
    [cls |-> c,
     components |-> CompositeExtend(<<>>, state["_components"]),
     observers |-> <<>>,
     attrs |-> [a \in DOMAIN state \ {"_components"} |-> state[a]]]

(***************************************************************************)
(* The state machine                                                       *)
(***************************************************************************)
\* The sequences of components given to ComponentDict(...) and .set(...).
ComponentSeqs == UNION {[1..n -> Components] : n \in 0..MaxComponents}

\* No Composite: the DefaultDict of an empty one.
NoComposite == <<>>

\* No copy has been made by the last operation.
NoClone == [cls |-> "", components |-> <<>>, observers |-> <<>>, attrs |-> <<>>]

\* No repr is running: reprlib's set is empty and nothing is on the stack.
NoRepr ==
    /\ repr_running = {}
    /\ stack = <<>>
    /\ text = <<>>

\* The observers registered before the entity is used: none at all, or two
\* global observers, two local ones for Base and one for NoneType.
ObserverSetups ==
    { [global |-> <<>>, local |-> <<>>],
      [global |-> <<"g1", "g2">>,
       local |-> ("Base" :> <<"l1", "l2">>) @@ ("NoneType" :> <<"l3">>)] }

\* The callbacks a setup registers.
Registered(setup) ==
    {setup.global[i] : i \in 1..Len(setup.global)}
    \cup UNION {{setup.local[k][i] : i \in 1..Len(setup.local[k])} : k \in DOMAIN setup.local}

\* The instance attributes after __init__: ComponentDictNode.__init__ sets
\* self.children and self.name.
InitAttrs(c) ==
    IF c = "ComponentDictNode" THEN ("children" :> "[]") @@ ("name" :> "Name") ELSE <<>>

\* A method of `self` ran on a dict that was `pre`: what `last` records.
Op(op, key, value, cs, err, pre) ==
    [op |-> op, key |-> key, value |-> value, cs |-> cs, err |-> err, pre |-> pre]

\* m = c(cs, observers) has been constructed with the observers of a setup
\* registered: __init__ stores the observers dict, makes the dict of
\* components empty and calls set(*cs).
Constructed(c, cs, setup) ==
    /\ abstract_components = Abstract
    /\ composite = NoComposite
    /\ cls = c
    /\ attrs = InitAttrs(c)
    /\ global_observers = setup.global
    /\ observers = setup.local
    /\ \E out \in {SetAll("m", <<>>, setup.local, cs)} :
           /\ components = out.components
           /\ log = out.log
           /\ last = Op("new", "", "", cs, out.err, <<>>)
    /\ clone = NoClone
    /\ NoRepr

\* The state after construction: m = ComponentDict(cs, observers).
Init ==
    \E setup \in ObserverSetups, cs \in ComponentSeqs :
        /\ raising \in {NoRaise} \cup [obs : Registered(setup), exc : Exceptions]
        /\ Constructed("ComponentDict", cs, setup)

\* A method of m ran: its outcome becomes the state.
Ran(op, out) ==
    /\ components' = out.components
    /\ log' = out.log
    /\ last' = op
    /\ clone' = NoClone
    /\ UNCHANGED <<repr_running, stack, text, abstract_components, composite, cls, observers, attrs,
                   global_observers, raising>>

\* m.set(*cs)
Set(cs) ==
    LET out == SetAll("m", components, observers, cs)
    IN  Ran(Op("set", "", "", cs, out.err, components), out)

\* m[key] = value
SetItemCall(key, value) ==
    LET out == SetItem("m", components, observers, key, value)
    IN  Ran(Op("setitem", key, value, <<>>, out.err, components), out)

\* del m[key]
DelItemCall(key) ==
    LET out == DelItem("m", components, observers, key)
    IN  Ran(Op("delitem", key, "", <<>>, out.err, components), out)

\* m.clear()
ClearCall ==
    LET out == Clear("m", components, observers)
    IN  Ran(Op("clear", "", "", <<>>, out.err, components), out)

\* clone = copy.copy(m), or pickle.loads(pickle.dumps(m)): a new object of
\* the same class, filled by __setstate__(m.__getstate__()).
Restore ==
    LET made == SetState("clone", cls, GetState(cls, components, observers, attrs))
    IN  /\ clone' = [cls |-> made.cls, components |-> made.components,
                     observers |-> made.observers, attrs |-> made.attrs]
        /\ log' = made.log
        /\ last' = Op("restore", "", "", <<>>, made.err, components)
        /\ UNCHANGED <<repr_running, stack, text, abstract_components, composite, cls, components, observers,
                       attrs, global_observers, raising>>

\* clone = pickle.loads(data), for the data an earlier version pickled for
\* an entity like m: a new object filled by __setstate__(legacy state).
Unpickle(shape) ==
    LET made == SetState("clone", cls, LegacyState(shape, components, attrs))
    IN  /\ clone' = [cls |-> made.cls, components |-> made.components,
                     observers |-> made.observers, attrs |-> made.attrs]
        /\ log' = made.log
        /\ last' = Op("unpickle", shape, "", <<>>, made.err, components)
        /\ UNCHANGED <<repr_running, stack, text, abstract_components, composite, cls, components, observers,
                       attrs, global_observers, raising>>

\* m.name = value, m.children = value: an attribute of a subclass instance.
\* An instance without the slot and without a __dict__ has no such attribute.
SetAttr(name, value) ==
    /\ name \in DataSlots(cls) \/ HasDict(cls)
    /\ attrs' = [a \in DOMAIN attrs \cup {name} |-> IF a = name THEN value ELSE attrs[a]]
    /\ log' = <<>>
    /\ last' = Op("setattr", name, value, <<>>, "ok", components)
    /\ clone' = NoClone
    /\ UNCHANGED <<repr_running, stack, text, abstract_components, composite, cls, components, observers,
                   global_observers, raising>>

Next ==
    \/ \E cs \in ComponentSeqs : Set(cs)
    \/ \E key \in Types, value \in Components : SetItemCall(key, value)
    \/ \E key \in Types : DelItemCall(key)
    \/ ClearCall
    \/ Restore

Spec == Init /\ [][Next]_vars

(***************************************************************************)
(* Pickling entities of ComponentDict and of its subclasses: observers     *)
(* that return normally, components set and deleted one at a time.         *)
(***************************************************************************)
InitPickle ==
    \E c \in ContainerClasses, setup \in ObserverSetups, cs \in ComponentSeqs :
        /\ raising = NoRaise
        /\ Constructed(c, cs, setup)

NextPickle ==
    \/ \E value \in Components : Set(<<value>>)
    \/ \E key \in Types : DelItemCall(key)
    \/ \E name \in AttrNames, value \in AttrValues : SetAttr(name, value)
    \/ Restore
    \/ \E shape \in LegacyShapes : Unpickle(shape)

SpecPickle == InitPickle /\ [][NextPickle]_vars

(***************************************************************************)
(* A Composite `bag` in use: bag = Composite(cs), then any of its methods. *)
(***************************************************************************)
\* Longest sequence handed to Composite.extend or assigned to bag[key].
MaxValues == 2

\* The sequences of components given to Composite(...), and those given to
\* extend and to bag[key] = values.
BagSeqs == UNION {[1..n -> BagComponents] : n \in 0..MaxBagLen}
ValueSeqs == UNION {[1..n -> BagComponents] : n \in 0..MaxValues}

\* No list of the DefaultDict is longer than the bound.
Bounded(b) == \A key \in DOMAIN b : Len(b[key]) <= MaxBagLen

\* The classes of a Composite.
CompositeClasses == {"Composite", "CompositeNode"}

\* bag = Composite(cs), or CompositeNode(cs): a new DefaultDict, then add
\* in order.
InitComposite ==
    /\ abstract_components = Abstract
    /\ cls \in CompositeClasses
    /\ \E cs \in BagSeqs :
           /\ composite = CompositeExtend(<<>>, cs)
           /\ last = Op("new", "", "", cs, "ok", <<>>)
    /\ components = <<>>
    /\ observers = <<>>
    /\ attrs = <<>>
    /\ global_observers = <<>>
    /\ raising = NoRaise
    /\ log = <<>>
    /\ clone = NoClone
    /\ NoRepr

\* No call is on record: the caller is between two calls.
NoCall == Op("", "", "", <<>>, "ok", <<>>)

\* The caller goes on after a call: the record of the call and the clone
\* it made are dropped.  (`last` and `clone` are history kept for the
\* properties; the next call depends on the bag alone.)
Forget ==
    /\ last # NoCall
    /\ last' = NoCall
    /\ clone' = NoClone
    /\ UNCHANGED <<repr_running, stack, text, abstract_components, composite, cls, components, observers, attrs,
                   global_observers, raising, log>>

\* A method of bag ran: its outcome becomes the state.
BagRan(op, out) ==
    /\ last = NoCall
    /\ Bounded(out.composite)
    /\ composite' = out.composite
    /\ last' = op
    /\ clone' = NoClone
    /\ UNCHANGED <<repr_running, stack, text, abstract_components, cls, components, observers, attrs,
                   global_observers, raising, log>>

\* bag.add(component)
AddCall(component) ==
    BagRan(Op("add", "", component, <<>>, "ok", composite),
           BagOutcome(CompositeAdd(composite, component), "ok"))

\* bag.extend(cs)
ExtendCall(cs) ==
    BagRan(Op("extend", "", "", cs, "ok", composite),
           BagOutcome(CompositeExtend(composite, cs), "ok"))

\* bag.remove(component)
RemoveCall(component) ==
    LET out == CompositeRemove(composite, component)
    IN  BagRan(Op("remove", "", component, <<>>, out.err, composite), out)

\* bag.clear()
CompositeClearCall ==
    LET out == CompositeClear(composite)
    IN  BagRan(Op("clear", "", "", <<>>, out.err, composite), out)

\* bag[key] = values
CompositeSetItemCall(key, values) ==
    LET out == CompositeSetItem(composite, key, values)
    IN  BagRan(Op("setitem", key, "", values, out.err, composite), out)

\* bag[key] = bag[key]
CompositeSetItemLiveCall(key) ==
    LET out == CompositeSetItemLive(composite, key)
    IN  BagRan(Op("setitem_live", key, "", <<>>, out.err, composite), out)

\* del bag[key]
CompositeDelItemCall(key) ==
    LET out == CompositeDelItem(composite, key)
    IN  BagRan(Op("delitem", key, "", <<>>, out.err, composite), out)

\* clone = copy.copy(bag), or pickle.loads(pickle.dumps(bag)): a new object
\* of the same class, filled by __setstate__(bag.__getstate__()).
CompositeRestore ==
    /\ last = NoCall
    /\ clone' = CompositeSetState(cls, CompositeGetState(cls, composite, attrs))
    /\ last' = Op("restore", "", "", <<>>, "ok", composite)
    /\ UNCHANGED <<repr_running, stack, text, abstract_components, composite, cls, components, observers,
                   attrs, global_observers, raising, log>>

NextComposite ==
    \/ \E component \in BagComponents : AddCall(component)
    \/ \E cs \in ValueSeqs : ExtendCall(cs)
    \/ \E component \in BagComponents : RemoveCall(component)
    \/ CompositeClearCall
    \/ \E key \in BagTypes, values \in ValueSeqs : CompositeSetItemCall(key, values)
    \/ \E key \in BagTypes : CompositeSetItemLiveCall(key)
    \/ \E key \in BagTypes : CompositeDelItemCall(key)
    \/ CompositeRestore
    \/ \E value \in AttrValues : SetAttr("name", value)
    \/ Forget

SpecComposite == InitComposite /\ [][NextComposite]_vars

(***************************************************************************)
(* Registering abstract components while an entity is in use: no class is  *)
(* registered at first, and abstract_component may be called on Base and   *)
(* on Derived at any time.                                                 *)
(***************************************************************************)
\* The classes abstract_component can be called on (a built-in class such
\* as NoneType or object does not take a new attribute).
Registrable == {"Base", "Derived"}

\* type = abstract_component(type): type._COMPONENT_TYPE = type.
AbstractComponentCall(type) ==
    /\ abstract_components' = abstract_components \cup {type}
    /\ log' = <<>>
    /\ last' = Op("abstract_component", type, "", <<>>, "ok", components)
    /\ clone' = NoClone
    /\ UNCHANGED <<repr_running, stack, text, composite, cls, components, observers,
                   attrs, global_observers, raising>>

\* m = ComponentDict(), with no observers and no class registered.
InitAbstract ==
    /\ abstract_components = {}
    /\ composite = NoComposite
    /\ cls = "ComponentDict"
    /\ components = <<>>
    /\ observers = <<>>
    /\ attrs = <<>>
    /\ global_observers = <<>>
    /\ raising = NoRaise
    /\ log = <<>>
    /\ last = Op("new", "", "", <<>>, "ok", <<>>)
    /\ clone = NoClone
    /\ NoRepr

NextAbstract ==
    \/ \E type \in Registrable : AbstractComponentCall(type)
    \/ \E value \in Components : Set(<<value>>)
    \/ \E key \in Types, value \in Components : SetItemCall(key, value)
    \/ \E key \in Types : DelItemCall(key)

SpecAbstract == InitAbstract /\ [][NextAbstract]_vars

(***************************************************************************)
(* Observers that act on the entity that notifies them.  The test module's *)
(* _migrate_derived is a global observer that, called for a value that is  *)
(* a Base, sets Abstract(value) on the entity and deletes the key again;   *)
(* both run inside the call that notified it.  The methods below thread    *)
(* the entity's dict and the calls made so far through the dispatch, so    *)
(* that a callback acts on the dict as it is when the callback is called.  *)
(***************************************************************************)
\* isinstance(value, Base)
IsBase(value) == value \in {"base", "derived"}

\* The call `call` as it is made at nesting `depth` of the dispatch for
\* `key` while the dict is d: the call, and what the slot of `key` holds.
Made(call, d, key, depth) ==
    [reg |-> call.reg, obs |-> call.obs, args |-> call.args, depth |-> depth,
     has |-> DictHas(d, key), held |-> DictGet(d, key)]

RECURSIVE NotifyObservers(_, _, _, _, _, _, _)
RECURSIVE SetItemReentrant(_, _, _, _, _, _)
RECURSIVE DelItemReentrant(_, _, _, _, _)

\* _migrate_derived(entity, key, value, _old), called at nesting `depth`.
MigrateDerived(self, st, obs, key, value, depth) ==
    IF IsBase(value)
    THEN CHOOSE out \in
            { IF set.err # "ok" THEN set
              ELSE DelItemReentrant(self, set, obs, key, depth + 1)
              : set \in {SetItemReentrant(self, st, obs, ComponentKey(AbstractOf(value)),
                                          AbstractOf(value), depth + 1)} } : TRUE
    ELSE st

\* The two `for` loops from the call calls[1] on: each callback is called
\* with what the method computed before the loops and runs to its end
\* before the next one is called; an exception ends the loops.
NotifyObservers(self, st, obs, calls, key, value, depth) ==
    IF calls = <<>> \/ st.err # "ok"
    THEN st
    ELSE LET call == Head(calls)
             made == [st EXCEPT !.log = Append(@, Made(call, st.components, key, depth))]
         IN  NotifyObservers(self,
                 IF call.obs = raising.obs THEN [made EXCEPT !.err = raising.exc]
                 ELSE IF call.obs = "_migrate_derived"
                 THEN MigrateDerived(self, made, obs, key, value, depth)
                 ELSE made,
                 obs, Tail(calls), key, value, depth)

\* __setitem__ that stores the value once more after the observers have run.
SetItemStoresTwice(self, st, obs, key, value, depth) ==
    IF key # ComponentKey(value)
    THEN [st EXCEPT !.err = "TypeError"]
    ELSE CHOOSE out \in
            { IF told.err # "ok" THEN told
              ELSE [told EXCEPT !.components = DictSet(@, key, value)]
              : told \in {NotifyObservers(self,
                              [st EXCEPT !.components = DictSet(@, key, value)], obs,
                              Calls(self, obs, key, value, DictGet(st.components, key)),
                              key, value, depth)} } : TRUE

\* ComponentDict.__setitem__, with callbacks that act
SetItemReentrant(self, st, obs, key, value, depth) ==
    LET valid_key == ComponentKey(value)
        old_value == DictGet(st.components, key)
    IN  IF key # valid_key
        THEN [st EXCEPT !.err = "TypeError"]
        ELSE NotifyObservers(self, [st EXCEPT !.components = DictSet(@, key, value)], obs,
                             Calls(self, obs, key, value, old_value), key, value, depth)

\* ComponentDict.__delitem__, with callbacks that act
DelItemReentrant(self, st, obs, key, depth) ==
    LET old_value == DictGet(st.components, key)
    IN  IF ~DictHas(st.components, key)
        THEN [st EXCEPT !.err = "KeyError"]
        ELSE NotifyObservers(self, [st EXCEPT !.components = DictDel(@, key)], obs,
                             Calls(self, obs, key, None, old_value), key, None, depth)

\* ComponentDict.set(*components), with callbacks that act
RECURSIVE SetAllReentrant(_, _, _, _)
SetAllReentrant(self, st, obs, cs) ==
    IF cs = <<>> \/ st.err # "ok"
    THEN st
    ELSE SetAllReentrant(self,
             SetItemReentrant(self, st, obs, ComponentKey(Head(cs)), Head(cs), 0),
             obs, Tail(cs))

\* The observers registered: _migrate_derived alone, as in the test module,
\* or with a second global observer after or before it and a local
\* observer for Base and for Abstract.
MigrateSetups ==
    { [global |-> <<"_migrate_derived">>, local |-> <<>>],
      [global |-> <<"_migrate_derived", "g1">>,
       local |-> ("Base" :> <<"l1">>) @@ ("Abstract" :> <<"l2">>)],
      [global |-> <<"g1", "_migrate_derived">>,
       local |-> ("Base" :> <<"l1">>) @@ ("Abstract" :> <<"l2">>)] }

\* m = ComponentDict(cs, observers) with _migrate_derived registered.
InitMigrate ==
    \E setup \in MigrateSetups, cs \in ComponentSeqs :
        /\ abstract_components = Abstract
        /\ composite = NoComposite
        /\ cls = "ComponentDict"
        /\ attrs = <<>>
        /\ global_observers = setup.global
        /\ observers = setup.local
        /\ raising = NoRaise
        /\ \E out \in {SetAllReentrant("m", Outcome(<<>>, <<>>, "ok"), setup.local, cs)} :
               /\ components = out.components
               /\ log = out.log
               /\ last = Op("new", "", "", cs, out.err, <<>>)
        /\ clone = NoClone
        /\ NoRepr

\* m.set(*cs)
SetReentrant(cs) ==
    LET out == SetAllReentrant("m", Outcome(components, <<>>, "ok"), observers, cs)
    IN  Ran(Op("set", "", "", cs, out.err, components), out)

\* m[key] = value
SetItemReentrantCall(key, value) ==
    LET out == SetItemReentrant("m", Outcome(components, <<>>, "ok"), observers, key, value, 0)
    IN  Ran(Op("setitem", key, value, <<>>, out.err, components), out)

\* del m[key]
DelItemReentrantCall(key) ==
    LET out == DelItemReentrant("m", Outcome(components, <<>>, "ok"), observers, key, 0)
    IN  Ran(Op("delitem", key, "", <<>>, out.err, components), out)

NextMigrate ==
    \/ \E value \in Components : SetReentrant(<<value>>)
    \/ \E key \in Types \cup {"Abstract"}, value \in Components \cup Abstracts :
           SetItemReentrantCall(key, value)
    \/ \E key \in Types \cup {"Abstract"} : DelItemReentrantCall(key)

SpecMigrate == InitMigrate /\ [][NextMigrate]_vars

(***************************************************************************)
(* repr(m): ComponentDict.__repr__ under @reprlib.recursive_repr(), with   *)
(* components that refer back to an entity.  Every __repr__ entered is a   *)
(* frame of `stack`.  `text` is the result as the list of its parts, left   *)
(* to right: a class name opens a ComponentDict(...) or a Recursive(...),  *)
(* ")" closes it, "observers)" closes a ComponentDict that has observers.  *)
(***************************************************************************)
\* The deepest call stack followed.
MaxDepth == 6

\* The components of the entities that are represented.
ReprComponents == {"base", None} \cup Recursives

\* The sequences of components given to ComponentDict(...).
ReprSeqs == UNION {[1..n -> ReprComponents] : n \in 0..MaxComponents}

\* The ComponentDicts: m, and a second entity n = ComponentDict([Recursive(m)]).
Entities == {"m", "n"}

\* e._components
ComponentsIn(e) ==
    IF e = "m" THEN components ELSE <<<<"Recursive", RecursiveOf("m")>>>>

\* e.observers
ObserversIn(e) == IF e = "m" THEN observers ELSE <<>>

\* e.__class__.__name__
ClassNameIn(e) == IF e = "m" THEN cls ELSE "ComponentDict"

\* component.entity, for a Recursive component.
EntityIn(component) ==
    CASE component = RecursiveOf("m") -> "m"
      [] component = RecursiveOf("n") -> "n"
      [] component = RecursiveOf(None) -> None

\* A frame of the call stack: the __repr__ of `self`, which has produced
\* `pc` of its parts.
Frame(self, pc) == [self |-> self, pc |-> pc]

\* The top frame, and the stack with the top frame at another place.
Top == stack[Len(stack)]
Advance == [stack EXCEPT ![Len(stack)].pc = @ + 1]

\* A wrapper that takes no note of the running calls.
InReprRunningNever(e, running) == FALSE

\* reprlib.recursive_repr: the wrapper finds the object's key in repr_running.
InReprRunning(e, running) == e \in running

\* repr(e) is called for an entity e by the code of the frames in `below`:
\* the wrapper returns the fill value "..." when e's __repr__ is running,
\* and else notes e as running and enters e's __repr__.
ReprEnter(e, below) ==
    IF InReprRunning(e, repr_running)
    THEN /\ stack' = below
         /\ text' = Append(text, "...")
         /\ UNCHANGED repr_running
    ELSE /\ Len(below) < MaxDepth
         /\ stack' = Append(below, Frame(e, 0))
         /\ repr_running' = repr_running \cup {e}
         /\ text' = Append(text, ClassNameIn(e))

\* The variables that a repr leaves alone.
entity_vars ==
    <<abstract_components, composite, cls, components, observers, attrs,
      global_observers, raising, log, last, clone>>

\* repr(m) is called.
ReprCall ==
    /\ stack = <<>>
    /\ text = <<>>
    /\ ReprEnter("m", <<>>)
    /\ UNCHANGED entity_vars

\* ComponentDict.__repr__ goes on to its next component: repr(component).
\* A Recursive's __repr__ is entered; any other component is a leaf.
ReprComponent ==
    /\ stack # <<>>
    /\ Top.self \in Entities
    /\ Top.pc < Len(ComponentsIn(Top.self))
    /\ LET component == ComponentsIn(Top.self)[Top.pc + 1][2]
       IN  IF component \in Recursives
           THEN /\ Len(stack) < MaxDepth
                /\ stack' = Append(Advance, Frame(component, 0))
                /\ text' = Append(text, "Recursive")
           ELSE /\ stack' = Advance
                /\ text' = Append(text, component)
    /\ UNCHANGED repr_running
    /\ UNCHANGED entity_vars

\* Recursive.__repr__ represents its field: repr(self.entity).
ReprField ==
    /\ stack # <<>>
    /\ Top.self \in Recursives
    /\ Top.pc = 0
    /\ IF EntityIn(Top.self) = None
       THEN /\ stack' = Advance
            /\ text' = Append(text, None)
            /\ UNCHANGED repr_running
       ELSE ReprEnter(EntityIn(Top.self), Advance)
    /\ UNCHANGED entity_vars

\* A __repr__ returns.  ComponentDict.__repr__ has joined its components
\* and adds its observers when it has any; the wrapper then discards the
\* object from repr_running.
ReprReturn ==
    /\ stack # <<>>
    /\ \/ /\ Top.self \in Entities
          /\ Top.pc = Len(ComponentsIn(Top.self))
          /\ repr_running' = repr_running \ {Top.self}
          /\ text' = Append(text,
                 IF DOMAIN ObserversIn(Top.self) # {} THEN "observers)" ELSE ")")
       \/ /\ Top.self \in Recursives
          /\ Top.pc = 1
          /\ text' = Append(text, ")")
          /\ UNCHANGED repr_running
    /\ stack' = SubSeq(stack, 1, Len(stack) - 1)
    /\ UNCHANGED entity_vars

\* m = ComponentDict(cs), with or without observers, then repr(m).
InitRepr ==
    \E setup \in ObserverSetups, cs \in ReprSeqs :
        /\ raising = NoRaise
        /\ Constructed("ComponentDict", cs, setup)

NextRepr ==
    \/ ReprCall
    \/ ReprComponent
    \/ ReprField
    \/ ReprReturn

SpecRepr == InitRepr /\ [][NextRepr]_vars

\* repr(m) is one synchronous call in one thread: once called, the
\* interpreter keeps executing it.
SpecReprRuns == SpecRepr /\ WF_vars(NextRepr)

(***************************************************************************)
(* Vocabulary of the properties                                            *)
(***************************************************************************)
\* The call a global observer receives, and the call a local observer
\* registered for `key` receives.
GlobalCall(self, g, key, value, old_value) ==
    [reg |-> "global", obs |-> g, args |-> <<self, key, value, old_value>>]
LocalCall(self, l, key, value, old_value) ==
    [reg |-> key, obs |-> l, args |-> <<self, value, old_value>>]

\* The value a dict holds under key, the absent indicator when it has none.
Held(d, key) == IF \E i \in 1..Len(d) : d[i][1] = key
                THEN (CHOOSE p \in {d[i] : i \in 1..Len(d)} : p[1] = key)[2]
                ELSE None

\* The callbacks a dispatch for `key` reaches, in dispatch order: the
\* global observers, then the local observers registered for `key`.
DispatchOrder(key) == global_observers \o ObserversFor(observers, key)

\* The raising callback was called in the last operation.
Raised == \E i \in 1..Len(log) : log[i].obs = raising.obs

\* The keys of a dict are pairwise distinct.
UniqueKeys(d) == \A i, j \in 1..Len(d) : d[i][1] = d[j][1] => i = j

(***************************************************************************)
(* C1: in every state reached by construction, set, subscript_set, delete  *)
(* and clear, failed calls included, every stored (key, value) pair has    *)
(* key = resolve(value), the abstract registrations being fixed.           *)
(***************************************************************************)
C1_KeyInvariant ==
    /\ \A i \in 1..Len(components) : components[i][1] = ComponentKey(components[i][2])
    /\ UniqueKeys(components)

\* A Derived instance is held under Base next to a second component, after
\* an assignment that failed.
C1_Witness ==
    /\ last.op = "setitem" /\ last.err = "TypeError"
    /\ Len(components) = 2
    /\ Held(components, "Base") = "derived"

(***************************************************************************)
(* C2: subscript_set(key, value) with resolve(value) # key fails with the  *)
(* key-mismatch error (TypeError), leaves the slots as they were and calls *)
(* no observer.                                                            *)
(***************************************************************************)
C2_MismatchRejected ==
    (last.op = "setitem" /\ last.key # ComponentKey(last.value)) =>
        /\ last.err = "TypeError"
        /\ components = last.pre
        /\ log = <<>>

\* m[Derived] = derived on a non-empty map with observers registered.
C2_Witness ==
    /\ last.op = "setitem" /\ last.key = "Derived" /\ last.value = "derived"
    /\ last.err = "TypeError"
    /\ Len(components) = 2
    /\ global_observers # <<>>

(***************************************************************************)
(* C3: a successful subscript_set(key, value) stores the value and calls   *)
(* every global observer once, in registration order, with (container,     *)
(* key, value, old), then every local observer registered for key once, in *)
(* registration order, with (container, value, old); old is the value held *)
(* before (absent if none); local observers of other keys are not called.  *)
(***************************************************************************)
C3_DispatchOrder ==
    (last.op = "setitem" /\ last.err = "ok") =>
        LET key == last.key
            old == Held(last.pre, key)
            G == Len(global_observers)
            locals == ObserversFor(observers, key)
        IN  /\ Held(components, key) = last.value
            /\ \E i \in 1..Len(components) : components[i] = <<key, last.value>>
            /\ Len(log) = G + Len(locals)
            /\ \A i \in 1..G :
                  log[i] = GlobalCall("m", global_observers[i], key, last.value, old)
            /\ \A j \in 1..Len(locals) :
                  log[G + j] = LocalCall("m", locals[j], key, last.value, old)
            /\ \A i \in 1..Len(log) : log[i].reg \in {"global", key}

\* m[Base] = derived replaced base, with two global observers and two local
\* observers of Base called, and a local observer of NoneType registered.
C3_Witness ==
    /\ last.op = "setitem" /\ last.err = "ok"
    /\ last.key = "Base" /\ last.value = "derived"
    /\ Held(last.pre, "Base") = "base"
    /\ Len(log) = 4
    /\ "NoneType" \in DOMAIN observers

(***************************************************************************)
(* C4: delete(key) of a key with no slot fails with the missing-key error  *)
(* (KeyError), changes nothing and calls no observer; of a key with a slot *)
(* it removes exactly that slot and then calls the global observers and    *)
(* the key's local observers, each once, with new_value absent and         *)
(* old_value the value that was stored.                                    *)
(***************************************************************************)
C4_Delete ==
    (last.op = "delitem") =>
        LET key == last.key
            pre == last.pre
            G == Len(global_observers)
            locals == ObserversFor(observers, key)
        IN  IF \A i \in 1..Len(pre) : pre[i][1] # key
            THEN last.err = "KeyError" /\ components = pre /\ log = <<>>
            ELSE /\ \E i \in 1..Len(pre) :
                      /\ pre[i][1] = key
                      /\ components = SubSeq(pre, 1, i - 1) \o SubSeq(pre, i + 1, Len(pre))
                 /\ (~Raised) =>
                      /\ last.err = "ok"
                      /\ Len(log) = G + Len(locals)
                      /\ \A i \in 1..G :
                            log[i] = GlobalCall("m", global_observers[i], key, None, Held(pre, key))
                      /\ \A j \in 1..Len(locals) :
                            log[G + j] = LocalCall("m", locals[j], key, None, Held(pre, key))

\* del m[Base] removed the first of two slots and notified four observers.
C4_Witness ==
    /\ last.op = "delitem" /\ last.err = "ok" /\ last.key = "Base"
    /\ Len(last.pre) = 2 /\ last.pre[1] = <<"Base", "derived">>
    /\ Len(components) = 1
    /\ Len(log) = 4

\* del m[Base] on a map that holds no Base.
C4_WitnessMissing ==
    /\ last.op = "delitem" /\ last.err = "KeyError" /\ last.key = "Base"
    /\ components # <<>> /\ global_observers # <<>> /\ log = <<>>

(***************************************************************************)
(* Sequences of components, for the properties of new, set and clear       *)
(***************************************************************************)
Range(seq) == {seq[i] : i \in 1..Len(seq)}
Max(S) == CHOOSE x \in S : \A y \in S : y <= x
Min(S) == CHOOSE x \in S : \A y \in S : x <= y

\* The indices of cs, in order, whose component has canonical key `key`.
IndicesOf(cs, key) ==
    SelectSeq([i \in 1..Len(cs) |-> i], LAMBDA i : ComponentKey(cs[i]) = key)

\* The value the i-th component of cs replaces: the nearest earlier
\* component of cs with the same key, else what the dict held before.
Replaced(pre, cs, i) ==
    LET earlier == {j \in 1..(i - 1) : ComponentKey(cs[j]) = ComponentKey(cs[i])}
    IN  IF earlier = {} THEN Held(pre, ComponentKey(cs[i])) ELSE cs[Max(earlier)]

\* The dict after the components of cs are assigned to it in order.
RECURSIVE Assigned(_, _)
Assigned(d, cs) ==
    IF cs = <<>> THEN d
    ELSE Assigned(DictSet(d, ComponentKey(Head(cs)), Head(cs)), Tail(cs))

(***************************************************************************)
(* C5: after new(cs) or set(cs) the map holds, for each canonical key of   *)
(* cs, exactly one value, the last component of cs with that key (len is   *)
(* the number of distinct keys: those of cs, and those held before a set), *)
(* and the observers were called once per component, in sequence order, a  *)
(* later duplicate with old_value the component it replaces.               *)
(***************************************************************************)
C5_Overwrite ==
    (last.op \in {"new", "set"} /\ last.err = "ok") =>
        LET cs == last.cs
            pre == last.pre
            keys == {ComponentKey(cs[i]) : i \in 1..Len(cs)}
        IN  /\ UniqueKeys(components)
            /\ \A k \in keys :
                  /\ \E i \in 1..Len(components) : components[i][1] = k
                  /\ Held(components, k) = cs[Max(Range(IndicesOf(cs, k)))]
            /\ Len(components) = Cardinality(keys \cup Range(DictKeys(pre)))
            /\ \A g \in Range(global_observers) :
                  SelectSeq(log, LAMBDA c : c.obs = g)
                    = [i \in 1..Len(cs) |->
                         GlobalCall("m", g, ComponentKey(cs[i]), cs[i], Replaced(pre, cs, i))]
            /\ \A k \in DOMAIN observers : \A l \in Range(observers[k]) :
                  SelectSeq(log, LAMBDA c : c.obs = l)
                    = [n \in 1..Len(IndicesOf(cs, k)) |->
                         LocalCall("m", l, k, cs[IndicesOf(cs, k)[n]],
                                   Replaced(pre, cs, IndicesOf(cs, k)[n]))]

\* ComponentDict([base, None, derived]) with observers registered: two
\* slots, derived under Base, its observers told that it replaces base.
C5_Witness ==
    /\ last.op = "new" /\ last.err = "ok"
    /\ last.cs = <<"base", None, "derived">>
    /\ Len(components) = 2
    /\ Held(components, "Base") = "derived"
    /\ \E i \in 1..Len(log) : log[i] = LocalCall("m", "l2", "Base", "derived", "base")

(***************************************************************************)
(* C6: clear() on a map of n keys, whatever component values they hold,    *)
(* with observers that do not change the map, deletes every key present,   *)
(* each deletion notified (new_value absent, old_value the stored value)   *)
(* to the global and local observers, and returns with the map empty.      *)
(***************************************************************************)
C6_ClearDeletesAll ==
    (last.op = "clear" /\ raising = NoRaise) =>
        LET pre == last.pre
        IN  /\ last.err = "ok"
            /\ components = <<>>
            /\ \A g \in Range(global_observers) :
                  SelectSeq(log, LAMBDA c : c.obs = g)
                    = [i \in 1..Len(pre) |-> GlobalCall("m", g, pre[i][1], None, pre[i][2])]
            /\ \A i \in 1..Len(pre) : \A l \in Range(ObserversFor(observers, pre[i][1])) :
                  \E n \in 1..Len(log) :
                      log[n] = LocalCall("m", l, pre[i][1], None, pre[i][2])

(***************************************************************************)
(* C7: for a map reached by set and delete with no observers registered,   *)
(* restore_state(capture_state(m)) is a container of the same class with   *)
(* the same keys in the same order, the same values and the same extra     *)
(* subclass fields.                                                        *)
(***************************************************************************)
C7_RoundTrip ==
    (last.op = "restore" /\ global_observers = <<>> /\ DOMAIN observers = {}) =>
        /\ clone.cls = cls
        /\ clone.components = components
        /\ DOMAIN clone.attrs = DOMAIN attrs
        /\ \A a \in DOMAIN attrs : clone.attrs[a] = attrs[a]

\* The part of C7 about keys, order and values alone.
C7_ComponentsRoundTrip ==
    (last.op = "restore" /\ global_observers = <<>> /\ DOMAIN observers = {}) =>
        /\ clone.cls = cls
        /\ clone.components = components

(***************************************************************************)
(* C8: restoring a map calls the observers as a fresh set of its components *)
(* on an empty map carrying the captured observers would: per captured     *)
(* component, in order, every global observer and then every local         *)
(* observer of the captured mapping registered for its key, with           *)
(* old_value absent.                                                       *)
(***************************************************************************)
C8_RestoreLikeSet ==
    (last.op = "restore" /\ last.err = "ok") =>
        /\ \A i \in 1..Len(log) : log[i].args[Len(log[i].args)] = None
        /\ \A g \in Range(global_observers) :
              SelectSeq(log, LAMBDA c : c.obs = g)
                = [i \in 1..Len(components) |->
                     GlobalCall("clone", g, components[i][1], components[i][2], None)]
        /\ \A i \in 1..Len(components) :
              \A l \in Range(ObserversFor(observers, components[i][1])) :
                  \E n \in 1..Len(log) :
                      log[n] = LocalCall("clone", l, components[i][1], components[i][2], None)

\* C8 as amended: restoring calls the global observers only, once per
\* captured component in captured order with old_value absent; no local
\* observer is called, and the captured observers mapping is installed on
\* the restored map afterwards.
C8_RestoreNotifiesGlobals ==
    (last.op = "restore" /\ last.err = "ok") =>
        LET G == Len(global_observers)
        IN  /\ Len(log) = Len(components) * G
            /\ \A i \in 1..Len(components) : \A j \in 1..G :
                  log[(i - 1) * G + j]
                    = GlobalCall("clone", global_observers[j],
                                 components[i][1], components[i][2], None)
            /\ clone.components = components
            /\ clone.observers = observers

\* A map holding a Base component, with local observers registered for
\* Base and global observers, was restored.
C8_Witness ==
    /\ last.op = "restore" /\ last.err = "ok"
    /\ Len(components) = 2
    /\ Held(components, "Base") = "derived"
    /\ Len(ObserversFor(clone.observers, "Base")) = 2
    /\ Len(log) = 4

(***************************************************************************)
(* C9: when an observer raises during the dispatch of subscript_set or     *)
(* delete, the error reaches the caller, the slot update of the operation  *)
(* stays applied, every observer earlier in the dispatch order was called  *)
(* exactly once and no later observer was called.                          *)
(***************************************************************************)
C9_ObserverFailure ==
    (last.op \in {"setitem", "delitem"} /\ Raised) =>
        LET key == last.key
            pre == last.pre
            order == DispatchOrder(key)
            n == Len(log)
        IN  /\ last.err = raising.exc
            /\ last.op = "setitem" =>
                  /\ Held(components, key) = last.value
                  /\ \E i \in 1..Len(components) : components[i] = <<key, last.value>>
            /\ last.op = "delitem" =>
                  /\ \E i \in 1..Len(pre) : pre[i][1] = key
                  /\ \A i \in 1..Len(components) : components[i][1] # key
            /\ Len(components) = Cardinality(
                  IF last.op = "setitem" THEN Range(DictKeys(pre)) \cup {key}
                  ELSE Range(DictKeys(pre)) \ {key})
            /\ n <= Len(order)
            /\ \A i \in 1..n : log[i].obs = order[i]
            /\ log[n].obs = raising.obs
            /\ \A i \in 1..(n - 1) : log[i].obs # raising.obs

\* del m[Base]: the second global observer raised; the slot is gone, the
\* first global observer was called and the two local observers were not.
C9_Witness ==
    /\ last.op = "delitem" /\ last.key = "Base"
    /\ raising.obs = "g2" /\ last.err = raising.exc
    /\ Len(log) = 2
    /\ Len(ObserversFor(observers, "Base")) = 2
    /\ Held(last.pre, "Base") = "derived"
    /\ \A i \in 1..Len(components) : components[i][1] # "Base"

(***************************************************************************)
(* C10: every UniqueMap operation, set(cs) of several components and      *)
(* clear() of several keys included, is atomic: when it returns, normally  *)
(* or with an error, either all of its slot changes are applied or none.   *)
(***************************************************************************)
C10_Atomic ==
    /\ last.op = "set" =>
          components \in {last.pre, Assigned(last.pre, last.cs)}
    /\ last.op = "clear" => components \in {last.pre, <<>>}
    /\ last.op = "setitem" =>
          components \in {last.pre, DictSet(last.pre, last.key, last.value)}
    /\ last.op = "delitem" =>
          components \in {last.pre, DictDel(last.pre, last.key)}

\* The callbacks the dispatch for the i-th component of cs reaches include
\* the raising one.
RaisesAt(cs, i) == raising.obs \in Range(DispatchOrder(ComponentKey(cs[i])))

\* C10 as amended: subscript_set and delete apply their one slot change or,
\* failing with the key-mismatch or missing-key error, none.  set(cs),
\* new(cs) and clear() apply their slot changes item by item, and when they
\* return the changes applied are those of an initial segment of the
\* sequence (the components given; the keys in iteration order): all of it,
\* unless an observer raised (the segment ends with the item whose dispatch
\* raised) or clear() reached a key holding None (the segment ends before it).
C10_PrefixApplied ==
    LET pre == last.pre
        cs == last.cs
    IN  /\ last.op = "setitem" =>
              components = IF last.err = "TypeError" THEN pre
                           ELSE Assigned(pre, <<last.value>>)
        /\ last.op = "delitem" =>
              components = IF \A i \in 1..Len(pre) : pre[i][1] # last.key THEN pre
                           ELSE SelectSeq(pre, LAMBDA p : p[1] # last.key)
        /\ last.op \in {"new", "set"} =>
              LET stops == {n \in 1..Len(cs) : RaisesAt(cs, n)} \cup {Len(cs)}
              IN  /\ components = Assigned(pre, SubSeq(cs, 1, Min(stops)))
                  /\ (last.err = "ok") = (\A n \in 1..Len(cs) : ~RaisesAt(cs, n))
        /\ last.op = "clear" =>
              LET stops == {n \in 0..Len(pre) :
                               \/ n = Len(pre)
                               \/ n < Len(pre) /\ pre[n + 1][2] = None
                               \/ n >= 1 /\ raising.obs \in Range(DispatchOrder(pre[n][1]))}
              IN  components = SubSeq(pre, Min(stops) + 1, Len(pre))

\* set(base, None, derived) on an empty map: the local observer of NoneType
\* raised for the second of the three components; the first two are
\* applied and the third is not.
C10_Witness ==
    /\ last.op = "set" /\ last.cs = <<"base", None, "derived">>
    /\ last.pre = <<>>
    /\ raising.obs = "l3" /\ last.err = raising.exc
    /\ components = <<<<"Base", "base">>, <<"NoneType", None>>>>

(***************************************************************************)
(* Families of an abstract component                                       *)
(***************************************************************************)
\* issubclass(type, B)
RECURSIVE IsSubclass(_, _)
IsSubclass(type, B) ==
    \/ type = B
    \/ type # "object" /\ IsSubclass(Parent(type), B)

\* The component instances of B's family: those of B and of its subtypes.
Family(B) == {value \in Components : IsSubclass(ClassOf(value), B)}

\* The positions of a dict that hold a component of B's family.
FamilySlots(d, B) == {i \in 1..Len(d) : d[i][2] \in Family(B)}

\* The last operation assigned a component of B's family: m[B] = value, or
\* m.set(value).
AssignedFamily(B) ==
    \/ last.op = "setitem" /\ last.key = B /\ last.value \in Family(B)
    \/ last.op = "set" /\ Len(last.cs) = 1 /\ last.cs[1] \in Family(B)

\* The component the last operation assigned.
AssignedValue == IF last.op = "set" THEN last.cs[1] ELSE last.value

\* The assignment of a component of B's family was accepted: it is held
\* under B, `B in m` is true and m[B] is that instance.
AcceptedUnder(B) ==
    /\ last.err = "ok"
    /\ Contains(components, <<B>>) = [value |-> TRUE, err |-> "ok"]
    /\ GetItem(components, B) = [value |-> AssignedValue, err |-> "ok"]

(***************************************************************************)
(* C11: once a type B is registered abstract, every instance of B or of a  *)
(* subtype of B resolves to key B, so m[B] = Derived() is accepted, B in m *)
(* is then true and m[B] is that instance; and in every reachable state a  *)
(* map holds at most one component of B's family, a later set of a family  *)
(* member replacing the earlier one under key B.                           *)
(***************************************************************************)
C11_FamilyUnique ==
    \A B \in abstract_components :
        /\ \A value \in Family(B) : ComponentKey(value) = B
        /\ AssignedFamily(B) => AcceptedUnder(B)
        /\ Cardinality(FamilySlots(components, B)) <= 1

\* No subtype of B is registered abstract itself.
OnlyRegistered(B) ==
    \A value \in Family(B) : ClassOf(value) # B => ClassOf(value) \notin abstract_components

\* Every component is held under the key it resolves to now: none was
\* stored before a registration that changed its key.
StoredUnderOwnKey(d) == \A i \in 1..Len(d) : d[i][1] = ComponentKey(d[i][2])

\* C11 as amended: when B is registered abstract and no subtype of B is
\* registered itself, every instance of B or of a subtype of B resolves to
\* key B, m[B] = Derived() is accepted, B in m is then true and m[B] is
\* that instance, replacing what B held; and a map all of whose components
\* are held under the key they resolve to (none was stored before a
\* registration that changed its key) holds at most one component of B's
\* family.
C11_FamilyUniqueUnderOwnKey ==
    \A B \in abstract_components :
        OnlyRegistered(B) =>
            /\ \A value \in Family(B) : ComponentKey(value) = B
            /\ AssignedFamily(B) => AcceptedUnder(B)
            /\ StoredUnderOwnKey(components) =>
                  Cardinality(FamilySlots(components, B)) <= 1

\* With Base registered and Derived not, m[Base] = derived replaced base
\* in a map that holds a second component.
C11_Witness ==
    /\ abstract_components = {"Base"}
    /\ last.op = "setitem" /\ last.key = "Base" /\ last.value = "derived"
    /\ last.err = "ok"
    /\ Held(last.pre, "Base") = "base"
    /\ Len(components) = 2
    /\ FamilySlots(components, "Base") # {}

(***************************************************************************)
(* C12: restoring a map from the legacy plain key-to-value mapping without *)
(* an observers field, or from the component-sequence representation,      *)
(* yields the same keys, values and key order as restoring the current     *)
(* representation built from the same components in the same order, with   *)
(* an empty observers mapping when the field is missing.                   *)
(***************************************************************************)
C12_LegacyRestore ==
    (last.op = "unpickle") =>
        LET current == SetState("clone", cls, GetState(cls, components, observers, attrs))
        IN  /\ last.err = "ok"
            /\ clone.components = current.components
            /\ clone.components = Assigned(<<>>, DictValues(components))
            /\ clone.observers = <<>>

\* A version 1.1 pickle of two components, the first under Base, was
\* restored for an entity that has local observers.
C12_Witness ==
    /\ last.op = "unpickle" /\ last.key = "v1.1"
    /\ Len(components) = 2 /\ components[1][1] = "Base"
    /\ clone.components = components
    /\ DOMAIN observers # {}
    /\ Len(log) = 4

(***************************************************************************)
(* Composite: vocabulary                                                   *)
(***************************************************************************)
\* isinstance(component, key)
IsInstance(component, key) == key \in Range(BagMro(component))

\* The items of a sequence that are instances of key, in order.
InstancesOf(seq, key) == SelectSeq(seq, LAMBDA component : IsInstance(component, key))

\* The sequence under the root key.
Root(b) == CompositeGetItem(b, "object")

\* The keys of the MRO of a component.
Chain(component) == Range(BagMro(component))

\* The keys outside the MRO of a component are as they were before the
\* last call.
OthersUnchanged(component) ==
    \A key \in BagTypes \ Chain(component) :
        /\ key \in DOMAIN composite <=> key \in DOMAIN last.pre
        /\ CompositeGetItem(composite, key) = CompositeGetItem(last.pre, key)

(***************************************************************************)
(* C13: add(c) appends c at the end of the sequence under every type of    *)
(* c's ancestor chain (its exact type through the root), creating the key  *)
(* where it was absent, and leaves the sequence of every key outside the   *)
(* chain unchanged; a later remove(c) of a sole component of that chain    *)
(* empties and drops all of those keys together.                           *)
(***************************************************************************)
C13_FanOut ==
    /\ last.op = "add" =>
          /\ \A key \in Chain(last.value) :
                /\ key \in DOMAIN composite
                /\ composite[key] = Append(CompositeGetItem(last.pre, key), last.value)
          /\ OthersUnchanged(last.value)
    /\ (last.op = "remove"
          /\ \A key \in Chain(last.value) :
                CompositeGetItem(last.pre, key) = <<last.value>>) =>
          /\ last.err = "ok"
          /\ \A key \in Chain(last.value) : key \notin DOMAIN composite
          /\ OthersUnchanged(last.value)

\* True was added to an empty Composite, under bool, int and object, and
\* then removed: no key is left.
C13_Witness ==
    /\ last.op = "remove" /\ last.value = "True"
    /\ last.pre = CompositeAdd(<<>>, "True")
    /\ DOMAIN last.pre = {"bool", "int", "object"}
    /\ DOMAIN composite = {}


(***************************************************************************)
(* C14: in every state reachable by add, extend, remove, delete(key),      *)
(* subscript_set and clear (remove matching by value equality, components  *)
(* of different types allowed to compare equal), the sequence under every  *)
(* key T is the root sequence restricted to the components whose ancestor  *)
(* chain contains T, in the same relative order.                           *)
(***************************************************************************)
C14_IndexConsistent ==
    \A T \in BagTypes :
        CompositeGetItem(composite, T) = InstancesOf(Root(composite), T)

(***************************************************************************)
(* C15: in every state reachable by add, extend, remove, delete(key),      *)
(* subscript_set and clear, after calls that fail with an error too, no    *)
(* key maps to an empty sequence; hence contains(K) is true if and only if *)
(* subscript_get(K) is non-empty.                                          *)
(***************************************************************************)
C15_NoEmptyKeys ==
    /\ \A key \in DOMAIN composite : composite[key] # <<>>
    /\ \A K \in BagTypes :
          CompositeContains(composite, <<K>>) <=> CompositeGetItem(composite, K) # <<>>

\* No list of the bag holds an entry equal to the component.
HoldsNoEqual(b, component) ==
    \A key \in DOMAIN b : \A i \in 1..Len(b[key]) : ~Eq(b[key][i], component)

(***************************************************************************)
(* C16: remove(c) on a bag that holds no entry equal to c fails with the   *)
(* value-not-found error (ValueError) and leaves the bag unchanged: the    *)
(* same set of keys and the same sequence under every key as before.       *)
(***************************************************************************)
C16_RemoveNonMember ==
    (last.op = "remove" /\ HoldsNoEqual(last.pre, last.value)) =>
        /\ last.err = "ValueError"
        /\ DOMAIN composite = DOMAIN last.pre
        /\ \A key \in DOMAIN last.pre : composite[key] = last.pre[key]

\* The part of C16 about the error alone.
C16_RemoveNonMemberRaises ==
    (last.op = "remove" /\ HoldsNoEqual(last.pre, last.value)) =>
        last.err = "ValueError"


\* A sequence without its first entry equal to the component.
WithoutFirstEqual(seq, component) ==
    LET hit == {i \in 1..Len(seq) : Eq(seq[i], component)}
        i == Min(hit)
    IN  SubSeq(seq, 1, i - 1) \o SubSeq(seq, i + 1, Len(seq))

(***************************************************************************)
(* C17: a successful remove(c) removes exactly one entry, the first one    *)
(* equal to c, from the sequence of every type of c's ancestor chain,      *)
(* shortens the root sequence by exactly one and keeps the relative order  *)
(* of the remaining components under every key; a following add(d) places  *)
(* d at the end.                                                           *)
(***************************************************************************)
C17_RemoveKeepsOrder ==
    /\ (last.op = "remove" /\ last.err = "ok") =>
          /\ \A key \in Chain(last.value) :
                /\ \E i \in 1..Len(CompositeGetItem(last.pre, key)) :
                      Eq(last.pre[key][i], last.value)
                /\ CompositeGetItem(composite, key)
                     = WithoutFirstEqual(last.pre[key], last.value)
          /\ Len(Root(composite)) = Len(Root(last.pre)) - 1
          /\ OthersUnchanged(last.value)
    /\ last.op = "add" =>
          /\ Root(composite) = Append(Root(last.pre), last.value)
          /\ \A key \in Chain(last.value) :
                composite[key][Len(composite[key])] = last.value

\* remove("fire") on a bag whose root sequence is ["fire", 1, "fire"]: the
\* first "fire" is gone and 1 is now ahead of the other one.
C17_Witness ==
    /\ last.op = "remove" /\ last.err = "ok" /\ last.value = "fire"
    /\ Root(last.pre) = <<"fire", "1", "fire">>
    /\ Root(composite) = <<"1", "fire">>
    /\ composite["str"] = <<"fire">>


\* The items of a sequence that are not instances of key, in order.
NotInstancesOf(seq, key) ==
    SelectSeq(seq, LAMBDA component : ~IsInstance(component, key))

(***************************************************************************)
(* C18: delete(key) on an absent key is a no-op that raises nothing; on a  *)
(* present key it removes every component currently under key from the     *)
(* sequences of all of that component's ancestor keys, leaving every       *)
(* component that is not an instance of key in place and in order;         *)
(* clear() is delete of the root key and leaves the bag with no keys.      *)
(***************************************************************************)
C18_DeleteAndClear ==
    /\ last.op = "delitem" =>
          /\ last.err = "ok"
          /\ IF last.key \notin DOMAIN last.pre
             THEN composite = last.pre
             ELSE \A T \in BagTypes :
                      CompositeGetItem(composite, T)
                        = NotInstancesOf(CompositeGetItem(last.pre, T), last.key)
    /\ last.op = "clear" =>
          /\ last.err = "ok"
          /\ DOMAIN composite = {}

\* The bag is as add and extend alone leave it, and no two of its
\* components of different classes compare equal.
Sound(b) ==
    /\ \A T \in DOMAIN b : b[T] # <<>> /\ b[T] = InstancesOf(Root(b), T)
    /\ \A T \in BagTypes : InstancesOf(Root(b), T) # <<>> => T \in DOMAIN b
    /\ \A i, j \in 1..Len(Root(b)) : Eq(Root(b)[i], Root(b)[j]) => Root(b)[i] = Root(b)[j]

\* C18 for such bags.
C18_DeleteAndClearWhenSound ==
    Sound(last.pre) => C18_DeleteAndClear

(***************************************************************************)
(* C19: after subscript_set(key, values) where every element of values is  *)
(* an instance of key, subscript_get(key) equals values in the given       *)
(* order, every component that was an instance of key before the call is   *)
(* gone from all keys, and every other component remains, in unchanged     *)
(* relative order, ahead of the newly added values in the root sequence.   *)
(***************************************************************************)
C19_SetItemReplaces ==
    (last.op = "setitem" /\ \A i \in 1..Len(last.cs) : IsInstance(last.cs[i], last.key)) =>
        /\ last.err = "ok"
        /\ CompositeGetItem(composite, last.key) = last.cs
        /\ Root(composite) = NotInstancesOf(Root(last.pre), last.key) \o last.cs
        /\ \A T \in BagTypes :
              CompositeGetItem(composite, T)
                = NotInstancesOf(CompositeGetItem(last.pre, T), last.key)
                    \o InstancesOf(last.cs, T)

\* C19 for bags as add and extend alone leave them, without equal
\* components of different classes before or after.
C19_SetItemReplacesWhenSound ==
    (Sound(last.pre) /\ Sound(composite)) => C19_SetItemReplaces

(***************************************************************************)
(* C20: capture_state records only the root-key sequence (plus instance    *)
(* attributes), and restore_state(capture_state(b)) rebuilds, by add in    *)
(* captured order, a bag whose set of keys and whose sequence under every  *)
(* key equal those of b, for any b reached by add, extend, remove, delete  *)
(* and subscript_set.                                                      *)
(***************************************************************************)
C20_CompositeRoundTrip ==
    (last.op = "restore" /\ cls \in CompositeClasses) =>
        /\ clone.cls = cls
        /\ DOMAIN clone.components = DOMAIN composite
        /\ \A T \in DOMAIN composite : clone.components[T] = composite[T]
        /\ clone.attrs = attrs

\* C20 for bags as add and extend alone leave them.
C20_CompositeRoundTripWhenSound ==
    Sound(composite) => C20_CompositeRoundTrip

(***************************************************************************)
(* C21: repr of an entity that is reachable from its own components        *)
(***************************************************************************)
\* The frames of the running repr that belong to the __repr__ of `self`.
FramesOf(self) == {i \in 1..Len(stack) : stack[i].self = self}

\* C21: computing repr(m) terminates, also when a component of m refers
\* back to m (directly, or through a second entity): every repr that was
\* called returns, and while it runs no entity is expanded inside its own
\* expansion - the __repr__ of an entity is on the call stack at most once,
\* and the stack never reaches the depth at which it is cut off.
C21_ReprTerminates ==
    /\ [](\A e \in Entities : Cardinality(FramesOf(e)) <= 1)
    /\ [](Len(stack) < MaxDepth)
    /\ (stack # <<>>) ~> (stack = <<>> /\ text # <<>>)

\* repr(m) has returned for an m that holds Recursive(m); the nested m was
\* replaced by the fill value.
C21_Witness ==
    /\ stack = <<>>
    /\ Held(components, "Recursive") = RecursiveOf("m")
    /\ \E i \in 1..Len(text) : text[i] = "..."
    /\ text[1] = "ComponentDict"
    /\ text[Len(text)] \in {")", "observers)"}

(***************************************************************************)
(* C22, C23: observers that set and delete components of the entity that   *)
(* notifies them                                                           *)
(***************************************************************************)
\* The last operation assigned one Base instance and returned: m[K] = v,
\* m.set(v) or ComponentDict([v]).
AssignedBase ==
    /\ last.err = "ok"
    /\ \/ last.op = "setitem" /\ IsBase(last.value)
       \/ last.op \in {"new", "set"} /\ Len(last.cs) = 1 /\ IsBase(last.cs[1])

\* The calls of a log without what was recorded about the dict.
Plain(calls) ==
    [i \in 1..Len(calls) |->
        [reg |-> calls[i].reg, obs |-> calls[i].obs, args |-> calls[i].args]]

\* The slot of the key that a recorded call is about held the call's new
\* value when the call was made, and was absent for a deletion (a stored
\* None counts as holding None).
Current(entry) ==
    LET value == entry.args[Len(entry.args) - 1]
    IN  \/ entry.has /\ entry.held = value
        \/ ~entry.has /\ value = None

\* C22: with _migrate_derived registered as a global observer, assigning a
\* Base instance v under its key K returns with K absent and Abstract(v)
\* stored under Abstract, every other slot as before.  The observers of the
\* assignment are called in their order; right after _migrate_derived is
\* called, and before the next observer of the assignment, the observers
\* are notified of the nested assignment of Abstract(v) and then of the
\* nested deletion of K, each while the slot is as the notification says.
C22_Migrate ==
    AssignedBase =>
        LET v == IF last.op = "setitem" THEN last.value ELSE last.cs[1]
            K == ComponentKey(v)
            outer == Calls("m", observers, K, v, DictGet(last.pre, K))
            stored == DictSet(last.pre, K, v)
            wrapped == DictSet(stored, "Abstract", AbstractOf(v))
            set == Calls("m", observers, "Abstract", AbstractOf(v), DictGet(stored, "Abstract"))
            deleted == Calls("m", observers, K, None, v)
            at == CHOOSE i \in 1..Len(outer) : outer[i].obs = "_migrate_derived"
            nested == (at + 1)..(at + Len(set) + Len(deleted))
        IN  /\ components = DictDel(wrapped, K)
            /\ ~DictHas(components, K)
            /\ DictGet(components, "Abstract") = AbstractOf(v)
            /\ Plain(log) = SubSeq(outer, 1, at) \o set \o deleted
                            \o SubSeq(outer, at + 1, Len(outer))
            /\ \A i \in 1..Len(log) : log[i].depth = IF i \in nested THEN 1 ELSE 0
            /\ \A i \in nested : Current(log[i])

\* ComponentDict([derived]) with _migrate_derived as the only observer, as
\* in test_abstract_migrate: the entity holds Abstract(derived) alone, and
\* _migrate_derived was called for the assignment, for the nested
\* assignment and for the nested deletion.
C22_Witness ==
    /\ AssignedBase
    /\ last.op = "new"
    /\ last.cs = <<"derived">>
    /\ global_observers = <<"_migrate_derived">>
    /\ components = <<<<"Abstract", AbstractOf("derived")>>>>
    /\ Len(log) = 3

\* C23: whenever an observer is called with (key, new_value, old_value),
\* the slot of key holds new_value at that moment, and key is absent when
\* new_value is absent - for every call of every dispatch, also after an
\* earlier observer of the same dispatch has changed the entity.
C23_NotificationsCurrent == \A i \in 1..Len(log) : Current(log[i])

(***************************************************************************)
(* C24: lookup and membership                                              *)
(***************************************************************************)
\* C24: for every valid key K, K in m is true if and only if m[K] returns
\* the stored value instead of taking the missing-key path, and m.get(K)
\* returns the absent indicator only when K has no slot - whatever the
\* stored component is, None stored under NoneType included.
C24_LookupAgrees ==
    \A K \in Types :
        ValidKey(K) =>
            /\ Contains(components, <<K>>).value
                   <=> /\ GetItem(components, K).err = "ok"
                       /\ DictHas(components, K)
                       /\ GetItem(components, K).value = DictGet(components, K)
            /\ Get(components, K, None).value = None => ~DictHas(components, K)

(***************************************************************************)
(* C25: assigning to a key of a Composite the sequence it holds            *)
(***************************************************************************)
\* C25: bag[K] = bag[K], with the sequence returned by bag[K] passed as it
\* is, returns normally and leaves under K the same components in the same
\* order.
C25_SelfAssignment ==
    last.op = "setitem_live" =>
        /\ last.err = "ok"
        /\ CompositeGetItem(composite, last.key) = CompositeGetItem(last.pre, last.key)

====
